---- MODULE Spec2Model ----
(***************************************************************************)
(* img4llm: the optimization orchestrator (optimizeForLLM), the VLM        *)
(* collaboration protocol (analyzeWithVLM), the semantic-SVG candidacy     *)
(* validator (isLikelySemanticSvg), the strategy selector                  *)
(* (determineStrategy), the colour-cardinality estimator                   *)
(* (countDistinctColors) and the raster resize (optimizeRasterImage), as   *)
(* one state machine; a batch of concurrent invocations as a second one;   *)
(* analyzeWithVLM and the validator called on their own as a third; the    *)
(* optimize command of the command line (runOptimize) as a fourth.         *)
(*                                                                         *)
(* Strings are sequences of text fragments (tokens); every fragment has a  *)
(* UTF-8 size, so trimming, byte length and the regular-expression tests   *)
(* of the validator are computed on the text and not assumed.              *)
(***************************************************************************)
EXTENDS Integers, Sequences, FiniteSets, TLC

VARIABLES
    pc,          \* position of the running call: idle, probe, generate, body, process, done, thrown
    api,         \* public entry point that is running (or ran last)
    input,       \* the input buffer of optimizeForLLM (an image)
    options,     \* the OptimizeOptions of the call
    analysis,    \* ImageAnalysisResult of analyzeImage(input)
    vlmResult,   \* local vlmResult of optimizeForLLM (present = FALSE is null)
    branch,      \* which return statement of the cascade is being taken
    result,      \* the OptimizeResult returned
    err,         \* message of the error the call rejected with
    vlmCalls,    \* invocations of analyzeWithVLM in this call
    probes,      \* requests sent to /api/tags in this call
    generates,   \* requests sent to /api/generate in this call
    request,     \* body of the last request sent to /api/generate
    codecCalls,  \* calls of optimizeRasterImage in this call
    remote,      \* how the remote service answered: probe, generation request, response body
    dsMeta,      \* argument of a direct determineStrategy call
    dsRet,       \* value returned by that call
    vlmErr,      \* message of the error analyzeWithVLM threw in this call ("" = none)
    cdcSampleSize, \* sampleSize argument of a direct countDistinctColors call
    cdcRet,      \* value returned by that call
    resizeIn,    \* source size and maxDimension of a direct optimizeRasterImage call
    resizeOut,   \* width and height of the JPEG that call returned
    calls,       \* the invocations of optimizeForLLM a batch has made, in order: the locals of each
    vlmOpts,  \* options of a direct call of analyzeWithVLM
    response,    \* what res.json() gave that call
    validated,   \* a call of isLikelySemanticSvg: its arguments and what it returned
    cli          \* a run of the command line's optimize command: files, streams, exit code

vars == <<pc, api, input, options, analysis, vlmResult, branch, result, err,
          vlmCalls, probes, generates, request, codecCalls, remote, dsMeta, dsRet, vlmErr,
          cdcSampleSize, cdcRet, resizeIn, resizeOut, calls,
          vlmOpts, response, validated, cli>>

\* what a call of analyzeWithVLM or isLikelySemanticSvg on its own writes
vlmCallVars == <<vlmOpts, response, validated>>

\* what a single call of optimizeForLLM or determineStrategy never writes
directCallVars == <<cdcSampleSize, cdcRet, resizeIn, resizeOut, calls, vlmCallVars, cli>>

----------------------------------------------------------------------------
(* Bounds *)

MaxSvgTokens == 3

\* largest number of pixels of the images countDistinctColors is called on
\* with every colouring
MaxPixels == 6

\* largest sampleSize countDistinctColors is called with
MaxSampleSize == 5

\* striped images: most stripes; widest image and tallest stripe
MaxStripes == 4
MaxStripeSide == 3

\* largest source side and largest maxDimension of the enumerated resize calls
MaxSide == 6

\* number of invocations a batch runs concurrently
NumCalls == 2

\* longest response text, in fragments, of a direct analyzeWithVLM call
MaxTextTokens == 4

\* most files on one command line
MaxFiles == 2

----------------------------------------------------------------------------
(* Text *)

\* a run of 32 spaces; "<text*" is a <text> element with 5100 bytes of content
WsRun == "ws"

\* UTF-8 size of one text fragment
TokBytes(t) ==
    CASE t = WsRun -> 32
      [] t = "<svg" -> 4
      [] t = "<rect" -> 5
      [] t = "<text*" -> 5100
      [] t = "<image" -> 6
      [] t = "href='data:image/" -> 17
      [] t = "<path" -> 5
      [] t = "<path*10" -> 50
      [] t = "<path*11" -> 55
      [] t = "<circle" -> 7
      [] t = "members" -> 13
      [] t = "cap" -> 3
      [] t = "txt" -> 3
      [] OTHER -> 1

RECURSIVE TrimStart(_)
TrimStart(s) == IF s # <<>> /\ Head(s) = WsRun THEN TrimStart(Tail(s)) ELSE s

RECURSIVE TrimEnd(_)
TrimEnd(s) ==
    IF s # <<>> /\ s[Len(s)] = WsRun THEN TrimEnd(SubSeq(s, 1, Len(s) - 1)) ELSE s

\* String.prototype.trim
Trim(s) == TrimEnd(TrimStart(s))

RECURSIVE byteLength(_)
\* Buffer.byteLength(s, 'utf8')
byteLength(s) == IF s = <<>> THEN 0 ELSE TokBytes(Head(s)) + byteLength(Tail(s))

RECURSIVE pathCount(_)
\* (svg.match(/<path\b/gi) || []).length
pathCount(s) ==
    IF s = <<>> THEN 0
    ELSE (CASE Head(s) = "<path" -> 1 [] Head(s) = "<path*10" -> 10
            [] Head(s) = "<path*11" -> 11 [] OTHER -> 0)
         + pathCount(Tail(s))

Contains(s, toks) == \E i \in 1..Len(s) : s[i] \in toks

----------------------------------------------------------------------------
(* JSON values and optional fields *)

Absent == [t |-> "absent", s |-> <<>>, b |-> FALSE]
Null == [t |-> "null", s |-> <<>>, b |-> FALSE]
Num == [t |-> "num", s |-> <<>>, b |-> FALSE]
Str(s) == [t |-> "str", s |-> s, b |-> FALSE]
Bool(b) == [t |-> "bool", s |-> <<>>, b |-> b]

\* JavaScript truthiness of a value that is a string, null or undefined
Truthy(v) == v.t = "str" /\ v.s # <<>>

----------------------------------------------------------------------------
(* Buffers *)

\* Buffer.from applied to the trimmed text
BufferFromTrimmed(s) ==
    [src |-> "utf8",
     data |-> [i \in 1..Len(Trim(s)) |-> [tok |-> Trim(s)[i], n |-> TokBytes(Trim(s)[i])]],
     maxDimension |-> 0, quality |-> 0]

\* Buffer.from(s, 'utf-8'): every fragment becomes its run of bytes
BufferFrom(s) ==
    [src |-> "utf8", data |-> [i \in 1..Len(s) |-> [tok |-> s[i], n |-> TokBytes(s[i])]],
     maxDimension |-> 0, quality |-> 0]

RECURSIVE SumRuns(_)
SumRuns(d) == IF d = <<>> THEN 0 ELSE Head(d).n + SumRuns(Tail(d))

\* buffer.length of a buffer made by Buffer.from
BufferLength(buf) == SumRuns(buf.data)

\* the caller's input buffer, returned unchanged
InputBuffer == [src |-> "input", data |-> <<>>, maxDimension |-> 0, quality |-> 0]

NoBuffer == [src |-> "none", data |-> <<>>, maxDimension |-> 0, quality |-> 0]

----------------------------------------------------------------------------
(* Images and the codec (sharp) at its interface *)

DefaultSampleSize == 1000
DefaultModel == "qwen3-vl:4b"
UndefinedNumber == 0
UndefinedString == "undefined"

\* An input buffer, described by what sharp decodes from it: header fields,
\* raw RGB samples (3 per pixel), and whether JPEG encoding of it succeeds.
Images ==
    { [format |-> "png", width |-> 2, height |-> 1, size |-> 150000,
       data |-> <<255, 0, 0, 0, 0, 255>>, encodable |-> TRUE],
      [format |-> "svg", width |-> 1, height |-> 1, size |-> 5000,
       data |-> <<0, 128, 0>>, encodable |-> TRUE],
      [format |-> "png", width |-> 1, height |-> 2, size |-> 10000,
       data |-> <<7, 7, 7, 7, 7, 7>>, encodable |-> FALSE],
      [format |-> "png", width |-> 0, height |-> 0, size |-> 10,
       data |-> <<>>, encodable |-> FALSE] }

NoImage == [format |-> "none", width |-> 0, height |-> 0, size |-> 0,
            data |-> <<>>, encodable |-> FALSE]

Max(a, b) == IF a >= b THEN a ELSE b

RECURSIVE SampleColorsSharedShift(_, _, _, _)
\* the red and the green channel are shifted by the same amount
SampleColorsSharedShift(data, i, totalPixels, step) ==
    IF i >= totalPixels THEN {}
    ELSE LET offset == i * 3
             rgb == data[offset + 1] * 256 + data[offset + 2] * 256 + data[offset + 3]
         IN {rgb} \cup SampleColorsSharedShift(data, i + step, totalPixels, step)

RECURSIVE SampleColors(_, _, _, _)
\* the loop of countDistinctColors: for (i = 0; i < totalPixels; i += step)
SampleColors(data, i, totalPixels, step) ==
    IF i >= totalPixels THEN {}
    ELSE LET offset == i * 3
             rgb == data[offset + 1] * 65536 + data[offset + 2] * 256 + data[offset + 3]
         IN {rgb} \cup SampleColors(data, i + step, totalPixels, step)

\* the stride is one pixel longer
countDistinctColorsLongStride(img, sampleSize) ==
    LET totalPixels == img.width * img.height
        step == Max(1, totalPixels \div sampleSize) + 1
    IN Cardinality(SampleColors(img.data, 0, totalPixels, step))

\* countDistinctColors(input, sampleSize); defined when the dimensions are known
countDistinctColors(img, sampleSize) ==
    LET totalPixels == img.width * img.height
        step == Max(1, totalPixels \div sampleSize)
    IN Cardinality(SampleColors(img.data, 0, totalPixels, step))

\* colours of the test images: red, green, blue, then greys
TestColor(i) ==
    CASE i = 1 -> <<255, 0, 0>>
      [] i = 2 -> <<0, 255, 0>>
      [] i = 3 -> <<0, 0, 255>>
      [] OTHER -> <<i, i, i>>

Min(a, b) == IF a <= b THEN a ELSE b

\* a decoded raster image of the given size
RawImage(width, height, data) ==
    [format |-> "png", width |-> width, height |-> height, size |-> 3 * width * height,
     data |-> data, encodable |-> TRUE]

\* the pixels makeStripedImage writes: sample j (1-based) of the raw data
StripedData(width, height, colors) ==
    LET stripeHeight == height \div Len(colors)
    IN [j \in 1..(3 * width * height) |->
          LET y == ((j - 1) \div 3) \div width
              colorIndex == Min(y \div stripeHeight, Len(colors) - 1)
          IN colors[colorIndex + 1][((j - 1) % 3) + 1]]

\* makeStripedImage(width, height, colors)
makeStripedImage(width, height, colors) ==
    RawImage(width, height, StripedData(width, height, colors))

\* images of k evenly-sized stripes: the height is a multiple of k
StripedImages ==
    { makeStripedImage(w, k * rows, [i \in 1..k |-> TestColor(i)]) :
        w \in 1..MaxStripeSide, rows \in 1..MaxStripeSide, k \in 1..MaxStripes }

\* the raw data of n pixels that take the first three test colours in every
\* possible way
Colourings(n) ==
    { [j \in 1..(3 * n) |-> TestColor(c[((j - 1) \div 3) + 1])[((j - 1) % 3) + 1]] :
        c \in [1..n -> 1..3] }

\* every image of at most MaxPixels pixels over these colours
ColouredImages ==
    UNION { { RawImage(wh[1], wh[2], d) : d \in Colourings(wh[1] * wh[2]) } :
            wh \in { x \in (1..MaxPixels) \X (1..MaxPixels) : x[1] * x[2] <= MaxPixels } }

\* the check of info.width and info.height is missing
DimensionsUnknownNever(img) == FALSE

\* countDistinctColors throws 'Unable to determine image dimensions'
DimensionsUnknown(img) == img.width = 0 \/ img.height = 0

\* extractMetadata(input)
extractMetadata(img) ==
    [dimensions |-> [width |-> img.width, height |-> img.height],
     format |-> img.format,
     filesize |-> img.size,
     distinctColors |-> countDistinctColors(img, DefaultSampleSize),
     aspectRatio |-> IF img.height > 0 THEN [num |-> img.width, den |-> img.height]
                     ELSE [num |-> 0, den |-> 1]]

NoMetadata ==
    [dimensions |-> [width |-> 0, height |-> 0], format |-> "none", filesize |-> 0,
     distinctColors |-> 0, aspectRatio |-> [num |-> 0, den |-> 1]]

\* the rule of the earlier releases, kept as the regression the selector is tested against
determineStrategyTracing(metadata) ==
    IF metadata.format = "svg" THEN "KEEP_AS_IS"
    ELSE IF metadata.filesize > 1000000 \/ metadata.distinctColors > 10000 THEN "RASTER_OPTIMIZE"
    ELSE IF metadata.distinctColors < 256 /\ metadata.filesize < 200000 THEN "CONVERT_TO_SVG"
    ELSE "RASTER_OPTIMIZE"

\* determineStrategy(metadata)
determineStrategy(metadata) ==
    IF metadata.format = "svg" THEN "KEEP_AS_IS" ELSE "RASTER_OPTIMIZE"

\* analyzeImage(input)
analyzeImage(img) ==
    LET metadata == extractMetadata(img)
    IN [metadata |-> metadata, strategy |-> determineStrategy(metadata), confidence |-> 1]

NoAnalysis == [metadata |-> NoMetadata, strategy |-> "none", confidence |-> 0]

\* getImageMimeTypeFromFormat(format)
getImageMimeTypeFromFormat(format) ==
    CASE format \in {"jpeg", "jpg"} -> "image/jpeg"
      [] format = "png" -> "image/png"
      [] format = "webp" -> "image/webp"
      [] format = "gif" -> "image/gif"
      [] format = "svg" -> "image/svg+xml"
      [] OTHER -> "image/png"

\* optimizeRasterImage(input, maxDimension = 768, quality = 85): the JPEG the codec returns
optimizeRasterImage(maxDimension, quality) ==
    [src |-> "codec", data |-> <<>>,
     maxDimension |-> IF maxDimension = UndefinedNumber THEN 768 ELSE maxDimension,
     quality |-> IF quality = UndefinedNumber THEN 85 ELSE quality]

\* a / b rounded to the nearest integer, halves up (a >= 0, b > 0)
RoundDiv(a, b) == (2 * a + b) \div (2 * b)

\* sharp: resize(width, height, {fit: 'inside', withoutEnlargement}) of a
\* w x h image: the largest size of the same aspect ratio that fits the box,
\* the constrained side being the box's and the other rounded to at least 1;
\* with withoutEnlargement the image is never scaled up
SharpResizeInside(w, h, width, height, withoutEnlargement) ==
    LET fitted ==
          IF w * height >= h * width
          THEN [width |-> width, height |-> Max(1, RoundDiv(h * width, w))]
          ELSE [width |-> Max(1, RoundDiv(w * height, h)), height |-> height]
    IN IF withoutEnlargement /\ w <= width /\ h <= height
       THEN [width |-> w, height |-> h]
       ELSE fitted

\* withoutEnlargement is left out of the resize options
optimizedSizeEnlarging(w, h, maxDimension) ==
    LET md == IF maxDimension = UndefinedNumber THEN 768 ELSE maxDimension
    IN SharpResizeInside(w, h, md, md, FALSE)

\* size of the JPEG optimizeRasterImage(input, maxDimension) returns for a
\* w x h input: resize(maxDimension, maxDimension, {fit: 'inside', withoutEnlargement: true})
optimizedSize(w, h, maxDimension) ==
    LET md == IF maxDimension = UndefinedNumber THEN 768 ELSE maxDimension
    IN SharpResizeInside(w, h, md, md, TRUE)

\* processImageByStrategy(buffer, analysis, maxDimension, quality)
processImageByStrategy(an, maxDimension, quality) ==
    IF an.strategy = "RASTER_OPTIMIZE" THEN optimizeRasterImage(maxDimension, quality)
    ELSE InputBuffer

----------------------------------------------------------------------------
(* Semantic-SVG candidacy validator *)

SvgByteBudget == 5120

\* a text of exactly maxBytes bytes is rejected, and so is one of ten paths
isLikelySemanticSvgStrict(svgCode, maxBytes) ==
    LET svg == Trim(svgCode)
    IN /\ svg # <<>> /\ Head(svg) = "<svg"
       /\ ~(byteLength(svg) >= maxBytes)
       /\ ~Contains(svg, {"<image"})
       /\ ~Contains(svg, {"href='data:image/"})
       /\ ~(pathCount(svg) >= 10)
       /\ Contains(svg, {"<text", "<text*", "<rect", "<circle", "<line", "<polyline", "<polygon"})

\* isLikelySemanticSvg(svgCode, maxBytes)
isLikelySemanticSvg(svgCode, maxBytes) ==
    LET svg == Trim(svgCode)
    IN /\ svg # <<>> /\ Head(svg) = "<svg"
       /\ ~(byteLength(svg) > maxBytes)
       /\ ~Contains(svg, {"<image"})
       /\ ~Contains(svg, {"href='data:image/"})
       /\ ~(pathCount(svg) > 10)
       /\ Contains(svg, {"<text", "<text*", "<rect", "<circle", "<line", "<polyline", "<polygon"})

----------------------------------------------------------------------------
(* VLM collaboration protocol *)

VLM_PROMPT_FULL == "VLM_PROMPT_FULL"
VLM_PROMPT_CAPTION == "VLM_PROMPT_CAPTION"

\* the all-defaults VlmAnalysisResult with the given caption
DefaultsWithCaption(caption) ==
    [present |-> TRUE, caption |-> caption, contentType |-> "complex", svgCandidate |-> FALSE,
     svgReason |-> <<>>, svgCode |-> Null, extractedText |-> Null]

\* let vlmResult: VlmAnalysisResult | null = null
NullVlm == [DefaultsWithCaption(<<>>) EXCEPT !.present = FALSE]

validContentTypes == {"diagram", "text", "photo", "complex"}

\* svgCode is copied from the parsed object as it is
ValidateFieldsUnchecked(parsed) ==
    [present |-> TRUE,
     caption |-> IF parsed.caption.t = "str" THEN Trim(parsed.caption.s) ELSE <<>>,
     contentType |-> IF parsed.contentType.t = "str" /\ Len(parsed.contentType.s) = 1
                        /\ parsed.contentType.s[1] \in validContentTypes
                     THEN parsed.contentType.s[1] ELSE "complex",
     svgCandidate |-> (parsed.svgCandidate.t = "bool" /\ parsed.svgCandidate.b = TRUE),
     svgReason |-> IF parsed.svgReason.t = "str" THEN parsed.svgReason.s ELSE <<>>,
     svgCode |-> parsed.svgCode,
     extractedText |-> IF parsed.extractedText.t = "str" THEN parsed.extractedText ELSE Null]

\* svgCandidate: !!parsed.svgCandidate
ValidateFieldsTruthy(parsed) ==
    [present |-> TRUE,
     caption |-> IF parsed.caption.t = "str" THEN Trim(parsed.caption.s) ELSE <<>>,
     contentType |-> IF parsed.contentType.t = "str" /\ Len(parsed.contentType.s) = 1
                        /\ parsed.contentType.s[1] \in validContentTypes
                     THEN parsed.contentType.s[1] ELSE "complex",
     svgCandidate |-> \/ (parsed.svgCandidate.t = "bool" /\ parsed.svgCandidate.b = TRUE)
                      \/ parsed.svgCandidate.t = "num"
                      \/ Truthy(parsed.svgCandidate),
     svgReason |-> IF parsed.svgReason.t = "str" THEN parsed.svgReason.s ELSE <<>>,
     svgCode |-> IF parsed.svgCode.t = "str" THEN parsed.svgCode ELSE Null,
     extractedText |-> IF parsed.extractedText.t = "str" THEN parsed.extractedText ELSE Null]

\* field validation of the parsed object
ValidateFields(parsed) ==
    [present |-> TRUE,
     caption |-> IF parsed.caption.t = "str" THEN Trim(parsed.caption.s) ELSE <<>>,
     contentType |-> IF parsed.contentType.t = "str" /\ Len(parsed.contentType.s) = 1
                        /\ parsed.contentType.s[1] \in validContentTypes
                     THEN parsed.contentType.s[1] ELSE "complex",
     svgCandidate |-> (parsed.svgCandidate.t = "bool" /\ parsed.svgCandidate.b = TRUE),
     svgReason |-> IF parsed.svgReason.t = "str" THEN parsed.svgReason.s ELSE <<>>,
     svgCode |-> IF parsed.svgCode.t = "str" THEN parsed.svgCode ELSE Null,
     extractedText |-> IF parsed.extractedText.t = "str" THEN parsed.extractedText ELSE Null]

\* wantsFull does not look at options.mode
GenerateRequestIgnoringMode(vlmOptions) ==
    LET wantsFull == vlmOptions.semanticSvg \/ vlmOptions.extractText
    IN [model |-> IF vlmOptions.model = UndefinedString THEN DefaultModel ELSE vlmOptions.model,
        prompt |-> IF wantsFull THEN VLM_PROMPT_FULL ELSE VLM_PROMPT_CAPTION,
        images |-> 1, stream |-> FALSE]

\* request body sent to /api/generate
GenerateRequest(vlmOptions) ==
    LET wantsFull == vlmOptions.mode = "full" \/ vlmOptions.semanticSvg \/ vlmOptions.extractText
    IN [model |-> IF vlmOptions.model = UndefinedString THEN DefaultModel ELSE vlmOptions.model,
        prompt |-> IF wantsFull THEN VLM_PROMPT_FULL ELSE VLM_PROMPT_CAPTION,
        images |-> 1, stream |-> FALSE]

NoRequest == [model |-> "none", prompt |-> "none", images |-> 0, stream |-> FALSE]

\* the options optimizeForLLM passes to analyzeWithVLM
VlmOptionsOf(opts) ==
    [caption |-> opts.generateCaption, semanticSvg |-> opts.semanticSvg,
     extractText |-> opts.extractText,
     mode |-> IF opts.semanticSvg \/ opts.extractText THEN "full" ELSE "caption",
     model |-> opts.captionModel]

SvgTokens == {WsRun, "<svg", "<rect", "<text*", "<image", "href='data:image/"}
SvgCodes == UNION {[1..n -> SvgTokens] : n \in 0..MaxSvgTokens}

\* objects JSON.parse can return for the matched block
ParsedObjects ==
    [caption : {Absent, Num, Str(<<WsRun, "cap">>)},
     contentType : {Absent, Str(<<"text">>), Str(<<"photo">>), Str(<<"bogus">>)},
     svgCandidate : {Bool(TRUE), Bool(FALSE), Str(<<"true">>)},
     svgReason : {Absent},
     svgCode : {Null, Num} \cup {Str(c) : c \in SvgCodes},
     extractedText : {Null, Str(<<>>), Str(<<"txt">>)}]

NoParsed ==
    [caption |-> Absent, contentType |-> Absent, svgCandidate |-> Absent, svgReason |-> Absent,
     svgCode |-> Absent, extractedText |-> Absent]

\* what res.json() gives and how the response text decodes:
\*   reject      res.json() rejects
\*   nonString   data.response is not a string (trim is not a function)
\*   missing     data.response is undefined
\*   prose       the text has no brace-delimited block
\*   badJson     the matched block does not parse
\*   json        the matched block parses to an object
Bodies ==
    {[kind |-> k, raw |-> <<>>, parsed |-> NoParsed] : k \in {"reject", "nonString", "missing"}}
    \cup {[kind |-> k, raw |-> r, parsed |-> NoParsed] :
            k \in {"prose", "badJson"}, r \in {<<WsRun>>, <<WsRun, "cap", WsRun>>}}
    \cup {[kind |-> "json", raw |-> <<>>, parsed |-> o] : o \in ParsedObjects}

\* one body of every kind, and for the json kind the objects that send the
\* cascade down each of its branches
FairBodies ==
    {body \in Bodies : body.kind # "json"}
    \cup {[kind |-> "json", raw |-> <<>>, parsed |-> o] :
            o \in [caption : {Absent, Str(<<WsRun, "cap">>)},
                   contentType : {Str(<<"text">>), Str(<<"photo">>)},
                   svgCandidate : {Bool(TRUE), Bool(FALSE)},
                   svgReason : {Absent},
                   svgCode : {Null, Str(<<"<svg", "<rect">>), Str(<<"<svg", "<image">>)},
                   extractedText : {Null, Str(<<"txt">>)}]}

NoBody == [kind |-> "none", raw |-> <<>>, parsed |-> NoParsed]

BodyThrows(body) == body.kind \in {"reject", "nonString"}

\* what analyzeWithVLM throws then: the rejection of res.json(), or the
\* TypeError of calling .trim on a response that is not a string
BodyError(body) ==
    IF body.kind = "reject" THEN "invalid json" ELSE "trim is not a function"

\* the fallback caption is the response text as received
DecodeBodyRawCaption(body) ==
    IF body.kind = "json" THEN ValidateFields(body.parsed)
    ELSE DefaultsWithCaption(body.raw)

\* analyzeWithVLM from `const data = await res.json()` to its return
DecodeBody(body) ==
    IF body.kind = "json" THEN ValidateFields(body.parsed)
    ELSE DefaultsWithCaption(Trim(body.raw))

\* a response that is text: prose words ("cap"), runs of spaces, braces, and
\* "members", a well-formed list of JSON members without braces of its own
ResponseTokens == {WsRun, "cap", "{", "}", "members"}
ResponseTexts == UNION {[1..n -> ResponseTokens] : n \in 0..MaxTextTokens}

\* member lists in which every field takes a value of every JSON type
TypedObjects ==
    [caption : {Absent, Num, Str(<<WsRun, "cap">>)},
     contentType : {Absent, Num, Str(<<"diagram">>), Str(<<"text">>), Str(<<"photo">>),
                    Str(<<"complex">>), Str(<<"bogus">>)},
     svgCandidate : {Absent, Num, Bool(TRUE), Bool(FALSE), Str(<<"true">>)},
     svgReason : {Absent, Num, Str(<<"cap">>)},
     svgCode : {Null, Num, Str(<<"<svg", "<rect">>)},
     extractedText : {Absent, Null, Str(<<"txt">>)}]

\* the member list of a text that is not only one object
ProseObjects ==
    { [NoParsed EXCEPT !.caption = Str(<<"cap">>)],
      [NoParsed EXCEPT !.caption = Str(<<"cap">>), !.contentType = Str(<<"text">>),
                       !.extractedText = Str(<<"txt">>)] }

\* what res.json() gives a direct call: a rejection, a data.response that is
\* not a string or is undefined, or a text; members is what every "members"
\* fragment of the text denotes
Responses ==
    {[kind |-> k, text |-> <<>>, members |-> NoParsed] : k \in {"reject", "nonString", "missing"}}
    \cup UNION { {[kind |-> "string", text |-> t, members |-> o] :
                    o \in (IF Contains(t, {"members"}) THEN ProseObjects ELSE {NoParsed})} :
                 t \in ResponseTexts }
    \cup {[kind |-> "string", text |-> <<"{", "members", "}">>, members |-> o] : o \in TypedObjects}

NoResponse == [kind |-> "none", text |-> <<>>, members |-> NoParsed]

\* index of the first t in s, of the last t in s; 0 when there is none
IndexOf(s, t) ==
    IF \E i \in 1..Len(s) : s[i] = t THEN CHOOSE i \in 1..Len(s) : s[i] = t /\ \A j \in 1..(i - 1) : s[j] # t
    ELSE 0
LastIndexOf(s, t) ==
    IF \E i \in 1..Len(s) : s[i] = t THEN CHOOSE i \in 1..Len(s) : s[i] = t /\ \A j \in (i + 1)..Len(s) : s[j] # t
    ELSE 0

\* raw.match(/\{[\s\S]*\}/): from the first opening brace to the last closing
\* brace after it; <<>> is null
matchBlock(raw) ==
    LET open == IndexOf(raw, "{")
        close == LastIndexOf(raw, "}")
    IN IF open # 0 /\ close > open THEN SubSeq(raw, open, close) ELSE <<>>

\* the fragments of a text that are not white space
Significant(s) == SelectSeq(s, LAMBDA t : t # WsRun)

\* JSON.parse(block) does not throw: the block is one object
JsonParses(block) == Significant(block) \in {<<"{", "}">>, <<"{", "members", "}">>}

\* JSON.parse(block)
JsonParse(block, members) == IF Significant(block) = <<"{", "}">> THEN NoParsed ELSE members

\* how a response decodes: its kind among those of Bodies
BodyOf(resp) ==
    IF resp.kind # "string" THEN [kind |-> resp.kind, raw |-> <<>>, parsed |-> NoParsed]
    ELSE LET jsonMatch == matchBlock(Trim(resp.text))
         IN IF jsonMatch = <<>> THEN [kind |-> "prose", raw |-> resp.text, parsed |-> NoParsed]
            ELSE IF ~JsonParses(jsonMatch)
            THEN [kind |-> "badJson", raw |-> resp.text, parsed |-> NoParsed]
            ELSE [kind |-> "json", raw |-> resp.text,
                  parsed |-> JsonParse(jsonMatch, resp.members)]

\* options a caller of analyzeWithVLM passes
VlmOptionSets ==
    [caption : BOOLEAN, semanticSvg : BOOLEAN, extractText : BOOLEAN,
     mode : {UndefinedString, "caption", "full"}, model : {UndefinedString, "llava"}]

NoVlmOptions ==
    [caption |-> FALSE, semanticSvg |-> FALSE, extractText |-> FALSE,
     mode |-> UndefinedString, model |-> UndefinedString]

\* texts and byte limits isLikelySemanticSvg is called with
ValidatorTokens == SvgTokens \cup {"<path", "<path*10", "<path*11", "<circle"}
ValidatorTexts == UNION {[1..n -> ValidatorTokens] : n \in 0..MaxSvgTokens}
ValidatorLimits == {8, 9, SvgByteBudget}

NoValidation == [svgCode |-> <<>>, maxBytes |-> 0, ret |-> FALSE]

----------------------------------------------------------------------------
(* Optimization orchestrator *)

OptionSets ==
    [generateCaption : BOOLEAN, semanticSvg : BOOLEAN, extractText : BOOLEAN,
     maxDimension : {UndefinedNumber, 512}, quality : {UndefinedNumber},
     captionModel : {UndefinedString}]

NoOptions ==
    [generateCaption |-> FALSE, semanticSvg |-> FALSE, extractText |-> FALSE,
     maxDimension |-> UndefinedNumber, quality |-> UndefinedNumber,
     captionModel |-> UndefinedString]

NoResult ==
    [buffer |-> NoBuffer, metadata |-> NoMetadata, strategy |-> "none", mimeType |-> "none",
     caption |-> Absent, extractedText |-> Absent]

\* the VLM is consulted on every call
WantsVlmAlways(opts) == TRUE

\* options?.generateCaption || options?.semanticSvg || options?.extractText
WantsVlm(opts) == opts.generateCaption \/ opts.semanticSvg \/ opts.extractText

\* the caption is attached whenever the VLM produced one
CaptionFieldUnrequested(opts, vlm) ==
    IF vlm.present /\ vlm.caption # <<>> THEN Str(vlm.caption) ELSE Absent

\* ...(options.generateCaption && vlmResult.caption ? { caption: vlmResult.caption } : {})
CaptionField(opts, vlm) ==
    IF opts.generateCaption /\ vlm.present /\ vlm.caption # <<>> THEN Str(vlm.caption) ELSE Absent

\* guard of the semantic-SVG return
SemanticSvgAccepted(opts, vlm) ==
    /\ opts.semanticSvg /\ vlm.present /\ vlm.svgCandidate /\ Truthy(vlm.svgCode)
    /\ isLikelySemanticSvg(vlm.svgCode.s, SvgByteBudget)

\* guard of the text-only return
TextBranchTaken(opts, vlm) ==
    /\ (opts.extractText \/ opts.generateCaption)
    /\ vlm.present /\ vlm.contentType = "text" /\ Truthy(vlm.extractedText)

\* the MIME type always follows the input format
BaselineMimeTypeFromFormat(an) == getImageMimeTypeFromFormat(an.metadata.format)

\* mimeType of the two returns that follow the metadata-determined strategy
BaselineMimeType(an) ==
    IF an.strategy = "KEEP_AS_IS" THEN getImageMimeTypeFromFormat(an.metadata.format)
    ELSE "image/jpeg"

\* the OptimizeResult of the semantic-SVG return
SemanticResult(an, opts, vlm) ==
    [buffer |-> BufferFrom(vlm.svgCode.s),
     metadata |-> an.metadata,
     strategy |-> "SEMANTIC_SVG",
     mimeType |-> "image/svg+xml",
     caption |-> CaptionField(opts, vlm),
     extractedText |-> Absent]

\* the OptimizeResult of the return statement that follows the await of
\* processImageByStrategy in branch b (text, fallback or plain)
ProcessedResult(b, an, opts, vlm) ==
    LET processed == processImageByStrategy(an, opts.maxDimension, opts.quality)
    IN IF b = "text"
       THEN [buffer |-> processed,
             metadata |-> an.metadata,
             strategy |-> "RASTER_OPTIMIZE",
             mimeType |-> "image/jpeg",
             caption |-> CaptionField(opts, vlm),
             extractedText |-> Str(vlm.extractedText.s)]
       ELSE [buffer |-> processed,
             metadata |-> an.metadata,
             strategy |-> an.strategy,
             mimeType |-> BaselineMimeType(an),
             caption |-> IF b = "fallback" THEN CaptionField(opts, vlm) ELSE Absent,
             extractedText |-> Absent]

\* sharp rejects: processImageByStrategy rejects
CodecRejects(an, img) == an.strategy = "RASTER_OPTIMIZE" /\ ~img.encodable

\* await processImageByStrategy(...): the codec is called for RASTER_OPTIMIZE only
StartProcess(an, b) ==
    /\ pc' = "process"
    /\ branch' = b
    /\ codecCalls' = codecCalls + (IF an.strategy = "RASTER_OPTIMIZE" THEN 1 ELSE 0)
    /\ UNCHANGED <<result, err>>

\* the text-only block is written above the semantic-SVG block
CascadeTextFirst(vlm) ==
    /\ vlmResult' = vlm
    /\ IF TextBranchTaken(options, vlm)
       THEN StartProcess(analysis, "text")
       ELSE IF SemanticSvgAccepted(options, vlm)
       THEN /\ result' = SemanticResult(analysis, options, vlm)
            /\ pc' = "done"
            /\ branch' = "semantic"
            /\ UNCHANGED <<codecCalls, err>>
       ELSE StartProcess(analysis, "fallback")

\* the semantic-SVG block builds its result but does not return: control falls
\* through to the baseline processing, which returns a second result
CascadeFallsThrough(vlm) ==
    /\ vlmResult' = vlm
    /\ IF SemanticSvgAccepted(options, vlm)
       THEN /\ result' = SemanticResult(analysis, options, vlm)
            /\ pc' = "process"
            /\ branch' = "semantic"
            /\ codecCalls' = codecCalls + (IF analysis.strategy = "RASTER_OPTIMIZE" THEN 1 ELSE 0)
            /\ UNCHANGED err
       ELSE IF TextBranchTaken(options, vlm)
       THEN StartProcess(analysis, "text")
       ELSE StartProcess(analysis, "fallback")

\* optimizeForLLM from the end of the try/catch around analyzeWithVLM to the
\* first return or await
Cascade(vlm) ==
    /\ vlmResult' = vlm
    /\ IF SemanticSvgAccepted(options, vlm)
       THEN /\ result' = SemanticResult(analysis, options, vlm)
            /\ pc' = "done"
            /\ branch' = "semantic"
            /\ UNCHANGED <<codecCalls, err>>
       ELSE IF TextBranchTaken(options, vlm)
       THEN StartProcess(analysis, "text")
       ELSE StartProcess(analysis, "fallback")

NoRemote == [probe |-> "none", generate |-> "none", body |-> "none"]

----------------------------------------------------------------------------
(* Command line: the optimize command *)

\* A path, resolved: its directory and its file name. The name is cut where
\* its dots are: <<"a", ".tar", ".png">> is a.tar.png.
CliPaths ==
    << [dir |-> "/d", name |-> <<"a", ".png">>],
       [dir |-> "/d", name |-> <<"a", ".jpeg">>],
       [dir |-> "/d", name |-> <<"b", ".tar", ".png">>],
       [dir |-> "/e", name |-> <<"a", ".png">>],
       [dir |-> "/d", name |-> <<"a", ".svg">>],
       [dir |-> "/d", name |-> <<"c">>] >>

NoPath == [dir |-> "", name |-> <<>>]

\* extname(path): the last dot of the name and what follows it, '' when the
\* name has no dot after its first character
extname(path) == IF Len(path.name) > 1 THEN path.name[Len(path.name)] ELSE ""

\* basename(path, ext)
basename(path, ext) ==
    IF ext # "" /\ path.name[Len(path.name)] = ext
    THEN SubSeq(path.name, 1, Len(path.name) - 1) ELSE path.name

\* getOutputPath(inputPath, strategy)
getOutputPath(inputPath, strategy) ==
    LET ext == extname(inputPath)
        base == basename(inputPath, ext)
        dir == inputPath.dir
    IN IF strategy = "KEEP_AS_IS"
       THEN [dir |-> dir, name |-> base \o <<".optimized">> \o (IF ext = "" THEN <<>> ELSE <<ext>>)]
       ELSE IF strategy = "SEMANTIC_SVG"
       THEN [dir |-> dir, name |-> base \o <<".optimized", ".svg">>]
       ELSE [dir |-> dir, name |-> base \o <<".optimized", ".jpg">>]

\* resolve(values.output)
OutputOption == [dir |-> "/d", name |-> <<"out", ".jpg">>]

\* what happens to one file: readFile rejects, optimizeForLLM rejects,
\* writeFile rejects, or optimizeForLLM returns a result of some strategy
FileOutcomes ==
    {"unreadable", "undecodable", "unwritable", "KEEP_AS_IS", "RASTER_OPTIMIZE", "SEMANTIC_SVG"}

\* message of the error one file's promise rejects with
ReasonOf(outcome) ==
    CASE outcome = "unreadable" -> "ENOENT: no such file or directory"
      [] outcome = "undecodable" -> "Unable to determine image dimensions"
      [] outcome = "unwritable" -> "EACCES: permission denied"
      [] OTHER -> ""

\* the command lines: up to MaxFiles distinct paths, in the order of CliPaths
FileLists ==
    UNION { {f \in [1..n -> 1..Len(CliPaths)] : \A i \in 1..(n - 1) : f[i] < f[i + 1]} :
            n \in 1..MaxFiles }

\* the async callback of filePaths.map for one file, suspended at pc
StartedFile(path, outcome) ==
    [path |-> path, outcome |-> outcome, pc |-> "read", outputPath |-> NoPath, reason |-> ""]

NoCli ==
    [stage |-> "none", output |-> FALSE, files |-> <<>>, stderr |-> <<>>, stdout |-> <<>>,
     failures |-> 0, exitCode |-> -1, written |-> {}, overwritten |-> {}]

\* the callback of one file from the await that settled to its next await or
\* to its end
StepFile(f, output) ==
    CASE f.pc = "read" ->
           IF f.outcome = "unreadable"
           THEN [f EXCEPT !.pc = "rejected", !.reason = ReasonOf(f.outcome)]
           ELSE [f EXCEPT !.pc = "optimize"]
      [] f.pc = "optimize" ->
           IF f.outcome = "undecodable"
           THEN [f EXCEPT !.pc = "rejected", !.reason = ReasonOf(f.outcome)]
           ELSE [f EXCEPT !.pc = "write",
                          !.outputPath = IF output THEN OutputOption
                                         ELSE getOutputPath(f.path, f.outcome)]
      [] f.pc = "write" ->
           IF f.outcome = "unwritable"
           THEN [f EXCEPT !.pc = "rejected", !.reason = ReasonOf(f.outcome)]
           ELSE [f EXCEPT !.pc = "fulfilled"]
      [] OTHER -> f

\* the process exits with 1 as soon as one file failed
ExitCodeAnyFailure(failures, n) == IF failures > 0 THEN 1 ELSE 0

\* if (failures === filePaths.length) process.exit(1); otherwise the process
\* ends with code 0
ExitCode(failures, n) == IF failures = n THEN 1 ELSE 0

\* the messages of the settled results of the given kind, in the order of the files
RECURSIVE LinesOf(_, _)
LinesOf(files, status) ==
    IF files = <<>> THEN <<>>
    ELSE (IF Head(files).pc = status
          THEN << [path |-> Head(files).path, message |-> Head(files).reason] >>
          ELSE <<>>) \o LinesOf(Tail(files), status)

\* if (!healthRes)
ProbeUnavailableRejectedOnly(outcome) == outcome = "rejected"

\* if (!healthRes || !healthRes.ok)
ProbeUnavailable(outcome) == outcome \in {"rejected", "nonOk"}

\* no catch: an error thrown by analyzeWithVLM rejects optimizeForLLM
VlmErrorPropagates ==
    /\ pc' = "thrown"
    /\ err' = "vlm"
    /\ UNCHANGED <<vlmResult, branch, result, codecCalls>>

\* catch { }: an error thrown by analyzeWithVLM leaves vlmResult null
VlmErrorCaught == Cascade(NullVlm)

\* responses the remote service gives one invocation: probe, generation
\* request, response body
NoScript == [probe |-> "none", generate |-> "none", body |-> NoBody]

\* the locals of one invocation of optimizeForLLM; script is what the remote
\* service will answer it
NoCall ==
    [pc |-> "idle", input |-> NoImage, options |-> NoOptions, script |-> NoScript,
     analysis |-> NoAnalysis, vlmResult |-> NullVlm, branch |-> "none", result |-> NoResult,
     err |-> ""]

NoResize == [w |-> 0, h |-> 0, maxDimension |-> UndefinedNumber]
NoSize == [width |-> 0, height |-> 0]

Init ==
    /\ pc = "idle"
    /\ api = "none"
    /\ input = NoImage
    /\ options = NoOptions
    /\ analysis = NoAnalysis
    /\ vlmResult = NullVlm
    /\ branch = "none"
    /\ result = NoResult
    /\ err = ""
    /\ vlmCalls = 0
    /\ probes = 0
    /\ generates = 0
    /\ request = NoRequest
    /\ codecCalls = 0
    /\ remote = NoRemote
    /\ dsMeta = NoMetadata
    /\ dsRet = "none"
    /\ vlmErr = ""
    /\ cdcSampleSize = 0
    /\ cdcRet = 0
    /\ resizeIn = NoResize
    /\ resizeOut = NoSize
    /\ calls = <<>>
    /\ vlmOpts = NoVlmOptions
    /\ response = NoResponse
    /\ validated = NoValidation
    /\ cli = NoCli

\* optimizeForLLM(input, options) is called: await analyzeImage(input)
CallOptimizeForLLM ==
    /\ pc = "idle"
    /\ \E img \in Images, opts \in OptionSets : input' = img /\ options' = opts
    /\ pc' = "analyze"
    /\ api' = "optimizeForLLM"
    /\ analysis' = NoAnalysis
    /\ vlmResult' = NullVlm
    /\ branch' = "none"
    /\ result' = NoResult
    /\ err' = ""
    /\ vlmCalls' = 0
    /\ probes' = 0
    /\ generates' = 0
    /\ request' = NoRequest
    /\ codecCalls' = 0
    /\ remote' = NoRemote
    /\ dsMeta' = NoMetadata
    /\ dsRet' = "none"
    /\ vlmErr' = ""
    /\ UNCHANGED directCallVars

\* analyzeImage settles: the error propagates, or the VLM protocol starts with
\* its availability probe, or the baseline strategy is applied
AnalyzeImageSettles ==
    /\ pc = "analyze"
    /\ IF DimensionsUnknown(input)
       THEN /\ pc' = "thrown"
            /\ err' = "Unable to determine image dimensions"
            /\ UNCHANGED <<analysis, branch, result, vlmCalls, probes, codecCalls>>
       ELSE /\ analysis' = analyzeImage(input)
            /\ IF WantsVlm(options)
               THEN /\ pc' = "probe"
                    /\ vlmCalls' = vlmCalls + 1
                    /\ probes' = probes + 1
                    /\ UNCHANGED <<branch, result, err, codecCalls>>
               ELSE /\ StartProcess(analyzeImage(input), "plain")
                    /\ UNCHANGED <<vlmCalls, probes>>
    /\ UNCHANGED <<api, input, options, vlmResult, generates, request, remote, dsMeta, dsRet,
                   vlmErr>>
    /\ UNCHANGED directCallVars

\* the probe is sent a second time when the first one fails
ProbeSettlesWithRetry ==
    /\ pc = "probe"
    /\ \E outcome \in {"ok", "nonOk", "rejected"} :
         /\ remote' = [remote EXCEPT !.probe = outcome]
         /\ IF ProbeUnavailable(outcome) /\ probes < 2
            THEN /\ probes' = probes + 1
                 /\ UNCHANGED <<pc, vlmResult, branch, result, err, codecCalls, generates,
                                request, vlmErr>>
            ELSE IF ProbeUnavailable(outcome)
            THEN /\ vlmErr' = "ollama is unavailable"
                 /\ VlmErrorCaught
                 /\ UNCHANGED <<generates, request, probes>>
            ELSE /\ pc' = "generate"
                 /\ generates' = generates + 1
                 /\ request' = GenerateRequest(VlmOptionsOf(options))
                 /\ UNCHANGED <<vlmResult, branch, result, err, codecCalls, probes, vlmErr>>
    /\ UNCHANGED <<api, input, options, analysis, vlmCalls, dsMeta, dsRet>>
    /\ UNCHANGED directCallVars

\* fetch(/api/tags) settles: rejected (caught to null), non-ok, or ok
ProbeSettles ==
    /\ pc = "probe"
    /\ \E outcome \in {"ok", "nonOk", "rejected"} :
         /\ remote' = [remote EXCEPT !.probe = outcome]
         /\ IF ProbeUnavailable(outcome)
            THEN \* throw new Error('ollama is unavailable')
                 /\ vlmErr' = "ollama is unavailable"
                 /\ VlmErrorCaught
                 /\ UNCHANGED <<generates, request>>
            ELSE /\ pc' = "generate"
                 /\ generates' = generates + 1
                 /\ request' = GenerateRequest(VlmOptionsOf(options))
                 /\ UNCHANGED <<vlmResult, branch, result, err, codecCalls, vlmErr>>
    /\ UNCHANGED <<api, input, options, analysis, vlmCalls, probes, dsMeta, dsRet>>
    /\ UNCHANGED directCallVars

\* fetch(/api/generate) settles: rejected, non-ok, or ok
GenerateSettles ==
    /\ pc = "generate"
    /\ \E outcome \in {"ok", "nonOk", "rejected"} :
         /\ remote' = [remote EXCEPT !.generate = outcome]
         /\ CASE outcome = "ok" ->
                  /\ pc' = "body"
                  /\ UNCHANGED <<vlmResult, branch, result, err, codecCalls, vlmErr>>
              [] outcome = "nonOk" ->
                  /\ Cascade(DefaultsWithCaption(<<>>))
                  /\ UNCHANGED vlmErr
              [] outcome = "rejected" ->
                  \* the await of fetch is outside any try: the rejection leaves analyzeWithVLM
                  /\ vlmErr' = "fetch failed"
                  /\ VlmErrorCaught
    /\ UNCHANGED <<api, input, options, analysis, vlmCalls, probes, generates, request,
                   dsMeta, dsRet>>
    /\ UNCHANGED directCallVars

\* res.json() settles with one of the given bodies; the response is decoded
\* and the cascade runs
BodySettlesAmong(bodies) ==
    /\ pc = "body"
    /\ \E body \in bodies :
         /\ remote' = [remote EXCEPT !.body = body.kind]
         /\ IF BodyThrows(body)
            THEN /\ vlmErr' = BodyError(body)
                 /\ VlmErrorCaught
            ELSE /\ Cascade(DecodeBody(body))
                 /\ UNCHANGED vlmErr
    /\ UNCHANGED <<api, input, options, analysis, vlmCalls, probes, generates, request,
                   dsMeta, dsRet>>
    /\ UNCHANGED directCallVars

\* res.json() settles
BodySettles == BodySettlesAmong(Bodies)

\* processImageByStrategy settles and the pending return statement completes
ProcessSettles ==
    /\ pc = "process"
    /\ IF CodecRejects(analysis, input)
       THEN /\ pc' = "thrown"
            /\ err' = "codec"
            /\ UNCHANGED result
       ELSE /\ pc' = "done"
            /\ UNCHANGED err
            /\ result' = ProcessedResult(branch, analysis, options, vlmResult)
    /\ UNCHANGED <<api, input, options, analysis, vlmResult, branch, vlmCalls, probes,
                   generates, request, codecCalls, remote, dsMeta, dsRet, vlmErr>>
    /\ UNCHANGED directCallVars

\* metadata a caller can hand to determineStrategy
MetadataSamples ==
    { [NoMetadata EXCEPT !.format = f, !.filesize = sz, !.distinctColors = dc] :
        f \in {"svg", "SVG", "png", "jpeg", "unknown"},
        sz \in {10000, 150000, 500000, 2000000},
        dc \in {16, 100, 5000, 15000} }

\* determineStrategy(metadata) is called directly
CallDetermineStrategy ==
    /\ pc = "idle"
    /\ pc' = "done"
    /\ api' = "determineStrategy"
    /\ \E metadata \in MetadataSamples :
         dsMeta' = metadata /\ dsRet' = determineStrategy(metadata)
    /\ input' = NoImage
    /\ options' = NoOptions
    /\ analysis' = NoAnalysis
    /\ vlmResult' = NullVlm
    /\ branch' = "none"
    /\ result' = NoResult
    /\ err' = ""
    /\ vlmCalls' = 0
    /\ probes' = 0
    /\ generates' = 0
    /\ request' = NoRequest
    /\ codecCalls' = 0
    /\ remote' = NoRemote
    /\ vlmErr' = ""
    /\ UNCHANGED directCallVars

\* what a call of optimizeForLLM or determineStrategy writes
pipelineVars ==
    <<options, analysis, vlmResult, branch, result, err, vlmCalls, probes, generates,
      request, codecCalls, remote, dsMeta, dsRet, vlmErr>>

\* countDistinctColors(input, sampleSize) is called directly
CallCountDistinctColors ==
    /\ pc = "idle"
    /\ pc' = "done"
    /\ api' = "countDistinctColors"
    /\ \E img \in ColouredImages \cup StripedImages, sampleSize \in 1..MaxSampleSize :
         /\ input' = img
         /\ cdcSampleSize' = sampleSize
         /\ cdcRet' = countDistinctColors(img, sampleSize)
    /\ UNCHANGED <<pipelineVars, resizeIn, resizeOut, calls, vlmCallVars, cli>>

\* the sizes and limits optimizeRasterImage is called with: every small size,
\* and the sizes of the tests
ResizeCalls ==
    [w : 1..MaxSide, h : 1..MaxSide, maxDimension : {UndefinedNumber} \cup 1..MaxSide]
    \cup { [w |-> 2000, h |-> 1000, maxDimension |-> 768],
           [w |-> 2000, h |-> 1500, maxDimension |-> 768],
           [w |-> 100, h |-> 80, maxDimension |-> 768],
           [w |-> 1000, h |-> 1000, maxDimension |-> 500],
           [w |-> 500, h |-> 500, maxDimension |-> UndefinedNumber],
           [w |-> 1000, h |-> 2000, maxDimension |-> UndefinedNumber] }

\* optimizeRasterImage(input, maxDimension) is called directly on a w x h image
CallOptimizeRasterImage ==
    /\ pc = "idle"
    /\ pc' = "done"
    /\ api' = "optimizeRasterImage"
    /\ \E call \in ResizeCalls :
         /\ resizeIn' = call
         /\ resizeOut' = optimizedSize(call.w, call.h, call.maxDimension)
    /\ UNCHANGED <<input, pipelineVars, cdcSampleSize, cdcRet, calls, vlmCallVars, cli>>

\* everything but the run of the command line
libraryVars ==
    <<pc, api, input, pipelineVars, cdcSampleSize, cdcRet, resizeIn, resizeOut, calls,
      vlmCallVars>>

\* runOptimize(filePaths) is called: the usage check, then the callback of
\* every file runs to its first await
CallRunOptimize ==
    /\ cli.stage = "none"
    /\ \E list \in FileLists, output \in BOOLEAN :
         \E outcomes \in [DOMAIN list -> FileOutcomes] :
            IF output /\ Len(list) > 1
            THEN cli' = [NoCli EXCEPT !.stage = "exited", !.output = output,
                                      !.stderr = << [path |-> NoPath,
                                                     message |-> "--output can only be used with a single file"] >>,
                                      !.exitCode = 1]
            ELSE cli' = [NoCli EXCEPT !.stage = "running", !.output = output,
                                      !.files = [i \in DOMAIN list |->
                                                   StartedFile(CliPaths[list[i]], outcomes[i])]]
    /\ UNCHANGED libraryVars

\* the await the callback of one file is suspended at settles; a writeFile
\* that resolves has replaced what the path held
FileSettles ==
    /\ cli.stage = "running"
    /\ \E i \in DOMAIN cli.files :
         LET f == cli.files[i]
             g == StepFile(f, cli.output)
             wrote == f.pc = "write" /\ g.pc = "fulfilled"
         IN /\ f.pc \in {"read", "optimize", "write"}
            /\ cli' = [cli EXCEPT
                  !.files[i] = g,
                  !.written = IF wrote
                              THEN {w \in cli.written : w.path # g.outputPath}
                                   \cup {[path |-> g.outputPath, by |-> i]}
                              ELSE cli.written,
                  !.overwritten = IF wrote
                                  THEN cli.overwritten
                                       \cup {w.by : w \in {v \in cli.written : v.path = g.outputPath}}
                                  ELSE cli.overwritten]
    /\ UNCHANGED libraryVars

\* Promise.allSettled resolves: the loop over the settled results reports
\* them, and the process ends
ResultsReported ==
    /\ cli.stage = "running"
    /\ \A i \in DOMAIN cli.files : cli.files[i].pc \in {"fulfilled", "rejected"}
    /\ LET failures == Len(LinesOf(cli.files, "rejected"))
       IN cli' = [cli EXCEPT !.stage = "exited",
                             !.stderr = LinesOf(cli.files, "rejected"),
                             !.stdout = LinesOf(cli.files, "fulfilled"),
                             !.failures = failures,
                             !.exitCode = ExitCode(failures, Len(cli.files))]
    /\ UNCHANGED libraryVars

CliNext == CallRunOptimize \/ FileSettles \/ ResultsReported

\* one run of the command line's optimize command
CliSpec == Init /\ [][CliNext]_vars

\* analyzeWithVLM(input, options) is called directly: await fetch(/api/tags)
CallAnalyzeWithVLM ==
    /\ pc = "idle"
    /\ pc' = "probe"
    /\ api' = "analyzeWithVLM"
    /\ \E img \in {i \in Images : i.format = "png" /\ i.encodable}, o \in VlmOptionSets :
         input' = img /\ vlmOpts' = o
    /\ vlmCalls' = 1
    /\ probes' = 1
    /\ UNCHANGED <<options, analysis, vlmResult, branch, result, err, generates, request,
                   codecCalls, remote, dsMeta, dsRet, vlmErr>>
    /\ UNCHANGED <<cdcSampleSize, cdcRet, resizeIn, resizeOut, calls, response, validated, cli>>

\* the probe of the direct call settles: the call throws, or sends the
\* generation request
VlmProbeSettles ==
    /\ pc = "probe"
    /\ \E outcome \in {"ok", "nonOk", "rejected"} :
         /\ remote' = [remote EXCEPT !.probe = outcome]
         /\ IF ProbeUnavailable(outcome)
            THEN /\ pc' = "thrown"
                 /\ vlmErr' = "ollama is unavailable"
                 /\ UNCHANGED <<generates, request>>
            ELSE /\ pc' = "generate"
                 /\ generates' = generates + 1
                 /\ request' = GenerateRequest(vlmOpts)
                 /\ UNCHANGED vlmErr
    /\ UNCHANGED <<api, input, options, analysis, vlmResult, branch, result, err, vlmCalls,
                   probes, codecCalls, dsMeta, dsRet>>
    /\ UNCHANGED directCallVars

\* the generation request of the direct call settles
VlmGenerateSettles ==
    /\ pc = "generate"
    /\ \E outcome \in {"ok", "nonOk", "rejected"} :
         /\ remote' = [remote EXCEPT !.generate = outcome]
         /\ CASE outcome = "ok" -> pc' = "body" /\ UNCHANGED <<vlmResult, vlmErr>>
              [] outcome = "nonOk" ->
                  /\ pc' = "done"
                  /\ vlmResult' = DefaultsWithCaption(<<>>)
                  /\ UNCHANGED vlmErr
              [] outcome = "rejected" ->
                  /\ pc' = "thrown"
                  /\ vlmErr' = "fetch failed"
                  /\ UNCHANGED vlmResult
    /\ UNCHANGED <<api, input, options, analysis, branch, result, err, vlmCalls, probes,
                   generates, request, codecCalls, dsMeta, dsRet>>
    /\ UNCHANGED directCallVars

\* res.json() of the direct call settles: the response is decoded and returned
VlmBodySettles ==
    /\ pc = "body"
    /\ \E resp \in Responses :
         /\ response' = resp
         /\ remote' = [remote EXCEPT !.body = BodyOf(resp).kind]
         /\ IF BodyThrows(BodyOf(resp))
            THEN /\ pc' = "thrown"
                 /\ vlmErr' = BodyError(BodyOf(resp))
                 /\ UNCHANGED vlmResult
            ELSE /\ pc' = "done"
                 /\ vlmResult' = DecodeBody(BodyOf(resp))
                 /\ UNCHANGED vlmErr
    /\ UNCHANGED <<api, input, options, analysis, branch, result, err, vlmCalls, probes,
                   generates, request, codecCalls, dsMeta, dsRet>>
    /\ UNCHANGED <<cdcSampleSize, cdcRet, resizeIn, resizeOut, calls, vlmOpts, validated, cli>>

\* isLikelySemanticSvg(svgCode, maxBytes) is called
CallIsLikelySemanticSvg ==
    /\ pc = "idle"
    /\ pc' = "done"
    /\ api' = "isLikelySemanticSvg"
    /\ \E svgCode \in ValidatorTexts, maxBytes \in ValidatorLimits :
         validated' = [svgCode |-> svgCode, maxBytes |-> maxBytes,
                       ret |-> isLikelySemanticSvg(svgCode, maxBytes)]
    /\ UNCHANGED <<input, pipelineVars, cdcSampleSize, cdcRet, resizeIn, resizeOut, calls,
                   vlmOpts, response, cli>>

VlmNext ==
    \/ CallAnalyzeWithVLM
    \/ VlmProbeSettles
    \/ VlmGenerateSettles
    \/ VlmBodySettles
    \/ CallIsLikelySemanticSvg

\* analyzeWithVLM and the validator of its SVG, called on their own
VlmSpec == Init /\ [][VlmNext]_vars

Next ==
    \/ CallOptimizeForLLM
    \/ AnalyzeImageSettles
    \/ ProbeSettles
    \/ GenerateSettles
    \/ BodySettles
    \/ ProcessSettles
    \/ CallDetermineStrategy
    \/ CallCountDistinctColors
    \/ CallOptimizeRasterImage

Spec == Init /\ [][Next]_vars

\* res.json() settles with a body of FairBodies
FairBodySettles == BodySettlesAmong(FairBodies)

FairNext ==
    \/ CallOptimizeForLLM
    \/ AnalyzeImageSettles
    \/ ProbeSettles
    \/ GenerateSettles
    \/ FairBodySettles
    \/ ProcessSettles

\* every pending promise settles: fetch resolves or rejects, res.json() resolves
\* or rejects, sharp resolves or rejects
FairSpec ==
    /\ Init
    /\ [][FairNext]_vars
    /\ WF_vars(AnalyzeImageSettles)
    /\ WF_vars(ProbeSettles)
    /\ WF_vars(GenerateSettles)
    /\ WF_vars(FairBodySettles)
    /\ WF_vars(ProcessSettles)

----------------------------------------------------------------------------
(* Concurrent invocations: runOptimize maps optimizeForLLM over the files of a
   batch and awaits them together; every step below is the code of one
   invocation between two of its awaits. *)

\* the files of a batch: decodable images
BatchImages == {img \in Images : ~DimensionsUnknown(img)}

\* the option sets of a batch: no auxiliary capability, or all of them
BatchOptions ==
    { NoOptions,
      [NoOptions EXCEPT !.generateCaption = TRUE, !.semanticSvg = TRUE, !.extractText = TRUE] }

\* a valid diagram answer and a text answer, both captioned, and a body that is not JSON
BatchBodies ==
    { [kind |-> "json", raw |-> <<>>,
       parsed |-> [NoParsed EXCEPT !.caption = Str(<<WsRun, "cap">>),
                                   !.contentType = Str(<<"photo">>),
                                   !.svgCandidate = Bool(TRUE),
                                   !.svgCode = Str(<<"<svg", "<rect">>),
                                   !.extractedText = Null]],
      [kind |-> "json", raw |-> <<>>,
       parsed |-> [NoParsed EXCEPT !.caption = Str(<<WsRun, "cap">>),
                                   !.contentType = Str(<<"text">>),
                                   !.svgCandidate = Bool(FALSE),
                                   !.svgCode = Null,
                                   !.extractedText = Str(<<"txt">>)]],
      [kind |-> "reject", raw |-> <<>>, parsed |-> NoParsed] }

\* what the remote service can answer one invocation
Scripts ==
    { [probe |-> "rejected", generate |-> "none", body |-> NoBody],
      [probe |-> "ok", generate |-> "nonOk", body |-> NoBody] }
    \cup { [probe |-> "ok", generate |-> "ok", body |-> b] : b \in BatchBodies }

\* await processImageByStrategy(...) of branch b
ProcessOf(c, b) == [c EXCEPT !.pc = "process", !.branch = b]

\* the cascade of one invocation once vlmResult is assigned
CascadeOf(c, vlm) ==
    LET d == [c EXCEPT !.vlmResult = vlm]
    IN IF SemanticSvgAccepted(c.options, vlm)
       THEN [d EXCEPT !.pc = "done", !.branch = "semantic",
                      !.result = SemanticResult(c.analysis, c.options, vlm)]
       ELSE IF TextBranchTaken(c.options, vlm) THEN ProcessOf(d, "text")
       ELSE ProcessOf(d, "fallback")

\* one invocation runs from the await that settled to its next await or to its end
Advance(c) ==
    CASE c.pc = "analyze" ->
           IF DimensionsUnknown(c.input)
           THEN [c EXCEPT !.pc = "thrown", !.err = "Unable to determine image dimensions"]
           ELSE LET d == [c EXCEPT !.analysis = analyzeImage(c.input)]
                IN IF WantsVlm(c.options) THEN [d EXCEPT !.pc = "probe", !.vlmResult = NullVlm]
                   ELSE ProcessOf(d, "plain")
      [] c.pc = "probe" ->
           IF ProbeUnavailable(c.script.probe) THEN CascadeOf(c, NullVlm)
           ELSE [c EXCEPT !.pc = "generate"]
      [] c.pc = "generate" ->
           CASE c.script.generate = "ok" -> [c EXCEPT !.pc = "body"]
             [] c.script.generate = "nonOk" -> CascadeOf(c, DefaultsWithCaption(<<>>))
             [] OTHER -> CascadeOf(c, NullVlm)
      [] c.pc = "body" ->
           IF BodyThrows(c.script.body) THEN CascadeOf(c, NullVlm)
           ELSE CascadeOf(c, DecodeBody(c.script.body))
      [] c.pc = "process" ->
           IF CodecRejects(c.analysis, c.input)
           THEN [c EXCEPT !.pc = "thrown", !.err = "codec"]
           ELSE [c EXCEPT !.pc = "done",
                          !.result = ProcessedResult(c.branch, c.analysis, c.options,
                                                     c.vlmResult)]
      [] OTHER -> c

\* vlmResult is declared at module level: every invocation reads the value
\* written last
ResumeModuleLevelVlm(cs, i) ==
    LET n == Advance(cs[i])
    IN [j \in DOMAIN cs |-> IF j = i THEN n ELSE [cs[j] EXCEPT !.vlmResult = n.vlmResult]]

\* invocation i of the batch resumes: analysis, vlmResult and the result are
\* locals of the invocation
Resume(cs, i) == [cs EXCEPT ![i] = Advance(cs[i])]

\* a call that has just been made
Called(img, opts, script) ==
    [NoCall EXCEPT !.pc = "analyze", !.input = img, !.options = opts, !.script = script]

\* runOptimize: optimizeForLLM(inputBuffer, opts) is called for one more file
CallInBatch ==
    /\ Len(calls) < NumCalls
    /\ \E img \in BatchImages, opts \in BatchOptions :
         \E script \in (IF WantsVlm(opts) THEN Scripts ELSE {NoScript}) :
            calls' = Append(calls, Called(img, opts, script))
    /\ UNCHANGED <<pc, api, input, pipelineVars, cdcSampleSize, cdcRet, resizeIn, resizeOut,
                     vlmCallVars, cli>>

\* the await one invocation is suspended at settles
InvocationResumes ==
    \E i \in DOMAIN calls :
        /\ calls[i].pc \in {"analyze", "probe", "generate", "body", "process"}
        /\ calls' = Resume(calls, i)
        /\ UNCHANGED <<pc, api, input, pipelineVars, cdcSampleSize, cdcRet, resizeIn, resizeOut,
                     vlmCallVars, cli>>

BatchNext == CallInBatch \/ InvocationResumes

BatchSpec == Init /\ [][BatchNext]_vars

----------------------------------------------------------------------------
(* Properties *)

\* at least one of generateCaption, semanticSvg, extractText is requested
AuxRequested == options.generateCaption \/ options.semanticSvg \/ options.extractText

Returned == api = "optimizeForLLM" /\ pc = "done"
Finished == api = "optimizeForLLM" /\ pc \in {"done", "thrown"}

\* optimizeForLLM(input) with no auxiliary capability returns a result
SucceedsPlain(img) ==
    /\ img.width > 0 /\ img.height > 0
    /\ img.format = "svg" \/ img.encodable

\* C1: the mimeType of every returned result is fixed by its strategy:
\* SEMANTIC_SVG gives image/svg+xml, KEEP_AS_IS the MIME type of the input's
\* format, RASTER_OPTIMIZE image/jpeg.
C1_MimeTypeMatchesStrategy ==
    Returned =>
        /\ result.strategy \in {"SEMANTIC_SVG", "KEEP_AS_IS", "RASTER_OPTIMIZE"}
        /\ result.strategy = "SEMANTIC_SVG" => result.mimeType = "image/svg+xml"
        /\ result.strategy = "KEEP_AS_IS" =>
              result.mimeType = getImageMimeTypeFromFormat(input.format)
        /\ result.strategy = "RASTER_OPTIMIZE" => result.mimeType = "image/jpeg"

C1_Witness ==
    /\ Returned
    /\ input.format = "png"
    /\ branch = "fallback"
    /\ remote.body = "json"
    /\ result.strategy = "RASTER_OPTIMIZE"
    /\ result.mimeType = "image/jpeg"

\* C2: requesting auxiliary capabilities never turns a successful optimization
\* into a failure: the call without them returns exactly on the inputs that
\* decode and encode, and on those inputs the call with them never throws,
\* whatever the remote service answers.
C2_AuxiliaryNeverFatal ==
    Finished =>
        /\ ~AuxRequested => (pc = "done" <=> SucceedsPlain(input))
        /\ (AuxRequested /\ SucceedsPlain(input)) => pc = "done"

C2_Witness ==
    /\ Returned
    /\ options.semanticSvg /\ options.extractText /\ options.generateCaption
    /\ remote.probe = "ok"
    /\ remote.generate = "ok"
    /\ remote.body = "nonString"
    /\ ~vlmResult.present

\* C3: with the remote service unreachable (probe rejected or non-ok), a call
\* that requests a caption on a raster input the codec can process returns a
\* RASTER_OPTIMIZE / image/jpeg result holding the codec output and no caption,
\* and does not throw.
C3_UnreachableStillRaster ==
    (/\ Finished
     /\ options.generateCaption
     /\ remote.probe \in {"rejected", "nonOk"}
     /\ input.format # "svg"
     /\ SucceedsPlain(input)) =>
        /\ pc = "done"
        /\ result.strategy = "RASTER_OPTIMIZE"
        /\ result.mimeType = "image/jpeg"
        /\ result.buffer.src = "codec"
        /\ codecCalls = 1
        /\ result.caption = Absent

C3_Witness ==
    /\ Returned
    /\ options.generateCaption
    /\ remote.probe = "nonOk"
    /\ input.format = "png"
    /\ result.strategy = "RASTER_OPTIMIZE"
    /\ result.caption = Absent

\* the markup the remote service returned, when it returned any
ReturnedMarkup == vlmResult.present /\ vlmResult.svgCode.t = "str"

HasRasterReference(svgCode) ==
    Contains(svgCode, {"<image"}) \/ Contains(svgCode, {"href='data:image/"})

\* C4: when the remote service returns vector markup of more than 5120 bytes
\* or with an embedded raster reference, the result never has strategy
\* SEMANTIC_SVG.
C4_OversizedOrRasterMarkupRejected ==
    (/\ Returned
     /\ ReturnedMarkup
     /\ \/ byteLength(vlmResult.svgCode.s) > SvgByteBudget
        \/ HasRasterReference(vlmResult.svgCode.s)) =>
        result.strategy # "SEMANTIC_SVG"

\* the buffer of a SEMANTIC_SVG result is the UTF-8 encoding of the text s
IsUtf8Of(buf, s) ==
    /\ buf.src = "utf8"
    /\ Len(buf.data) = Len(s)
    /\ \A i \in 1..Len(s) : buf.data[i].tok = s[i] /\ buf.data[i].n = TokBytes(s[i])

C6_SemanticSvgWithinBudget ==
    (Returned /\ result.strategy = "SEMANTIC_SVG") =>
        BufferLength(result.buffer) <= SvgByteBudget

\* C7: caption is present only if generateCaption was requested and a
\* non-empty caption was obtained from the VLM; extractedText is present only
\* if extractText was requested and non-empty text was obtained from the VLM.
C7_FieldsOnlyIfRequested ==
    Returned =>
        /\ result.caption # Absent =>
              /\ options.generateCaption
              /\ vlmResult.present /\ vlmResult.caption # <<>>
              /\ result.caption = Str(vlmResult.caption)
        /\ result.extractedText # Absent =>
              /\ options.extractText
              /\ vlmResult.present /\ Truthy(vlmResult.extractedText)
              /\ result.extractedText = vlmResult.extractedText

\* C7 (amended): as C7, with extractedText present only if extractText or
\* generateCaption was requested and non-empty text was obtained from the VLM.
C7_FieldsOnlyIfRequestedOrCaptioned ==
    Returned =>
        /\ result.caption # Absent =>
              /\ options.generateCaption
              /\ vlmResult.present /\ vlmResult.caption # <<>>
              /\ result.caption = Str(vlmResult.caption)
        /\ result.extractedText # Absent =>
              /\ options.extractText \/ options.generateCaption
              /\ vlmResult.present /\ Truthy(vlmResult.extractedText)
              /\ result.extractedText = vlmResult.extractedText

C7_Witness ==
    /\ Returned
    /\ options.generateCaption /\ ~options.extractText /\ options.semanticSvg
    /\ result.extractedText = Str(<<"txt">>)
    /\ result.caption = Absent

\* C8: a call that requests an auxiliary capability invokes the VLM protocol
\* exactly once once metadata extraction has succeeded, sends the probe once
\* and the generation request at most once; neither is repeated after a failure.
C8_SingleVlmRoundTrip ==
    (api = "optimizeForLLM" /\ AuxRequested) =>
        /\ vlmCalls <= 1 /\ probes <= 1 /\ generates <= 1
        /\ probes = vlmCalls
        /\ pc \in {"probe", "generate", "body", "process", "done"} => vlmCalls = 1
        /\ (pc = "thrown" /\ analysis # NoAnalysis) => vlmCalls = 1
        /\ generates = 1 => remote.probe = "ok"

C8_Witness ==
    /\ Returned
    /\ options.generateCaption /\ options.semanticSvg /\ options.extractText
    /\ remote.probe = "rejected"
    /\ vlmCalls = 1 /\ probes = 1 /\ generates = 0

\* C9: with no auxiliary capability requested no request is sent to the remote
\* service, the baseline strategy is applied directly (codec call for a raster
\* input, pass-through for SVG), and the result has neither caption nor
\* extractedText.
C9_NoVlmWithoutAuxiliary ==
    (api = "optimizeForLLM" /\ ~AuxRequested) =>
        /\ vlmCalls = 0 /\ probes = 0 /\ generates = 0
        /\ remote = NoRemote
        /\ pc = "done" =>
              /\ result.caption = Absent
              /\ result.extractedText = Absent
              /\ input.format = "svg" =>
                    /\ result.strategy = "KEEP_AS_IS"
                    /\ result.buffer = InputBuffer
                    /\ codecCalls = 0
              /\ input.format # "svg" =>
                    /\ result.strategy = "RASTER_OPTIMIZE"
                    /\ result.buffer.src = "codec"
                    /\ codecCalls = 1

C9_Witness ==
    /\ Returned
    /\ ~AuxRequested
    /\ input.format = "svg"
    /\ result.strategy = "KEEP_AS_IS"
    /\ result.buffer = InputBuffer

C12_ThrowsOnlyWhenUnavailable ==
    (api = "optimizeForLLM" /\ remote.probe = "ok" /\ remote.generate \in {"ok", "nonOk"})
        => vlmErr = ""

\* C13: the generation request is sent only after the probe answered ok; a
\* probe that is rejected or answers non-ok makes analyzeWithVLM throw
\* 'ollama is unavailable' with no generation request and no second probe.
C13_GenerationHealthGated ==
    /\ generates >= 1 => remote.probe = "ok"
    /\ pc = "probe" => generates = 0
    /\ remote.probe \in {"rejected", "nonOk"} =>
          /\ vlmErr = "ollama is unavailable"
          /\ generates = 0
          /\ probes = 1
          /\ request = NoRequest
    /\ vlmErr = "ollama is unavailable" => remote.probe \in {"rejected", "nonOk"}

C13_Witness ==
    /\ remote.probe = "nonOk" /\ vlmErr = "ollama is unavailable"
    /\ generates = 0 /\ Returned

\* C11: for an input that determineStrategy classifies as KEEP_AS_IS, the
\* returned buffer is the input buffer, byte for byte, under every option set.
C11_KeepAsIsRoundTrip ==
    (Returned /\ analysis.strategy = "KEEP_AS_IS") => result.buffer = InputBuffer

\* an invocation of optimizeForLLM whose metadata extraction succeeded
MetadataExtracted == api = "optimizeForLLM" /\ analysis # NoAnalysis

\* C14 as stated: an invocation whose metadata extraction succeeded never ends
\* without an OptimizeResult (it always completes by returning one).
C14_AlwaysOneResult ==
    (MetadataExtracted /\ pc \in {"done", "thrown"}) => (pc = "done" /\ result # NoResult)

\* C14 amended: an invocation whose metadata extraction succeeded eventually
\* completes; it either returns one OptimizeResult built by exactly one branch
\* of the cascade, the branch and the result being set once, or rejects with
\* the codec's error and no result.
C14_CompletesWithOneResultOrCodecError ==
    /\ MetadataExtracted ~> (MetadataExtracted /\ pc \in {"done", "thrown"})
    /\ [](Returned =>
            /\ branch \in {"semantic", "text", "fallback", "plain"}
            /\ result # NoResult
            /\ branch = "semantic" <=> result.strategy = "SEMANTIC_SVG"
            /\ branch = "text" => result.extractedText # Absent
            /\ branch # "text" => result.extractedText = Absent)
    /\ []((MetadataExtracted /\ pc = "thrown") => (err = "codec" /\ result = NoResult))
    /\ [][(branch # "none" => branch' = branch) /\ (result # NoResult => result' = result)]_vars

C14_Witness == Returned /\ branch = "fallback" /\ remote.generate = "ok" /\ codecCalls = 1

\* C16: when the text branch of the cascade returns, the result is
\* RASTER_OPTIMIZE / image/jpeg, its buffer is the raster codec's output, and it
\* carries the extracted text and the caption that was requested and obtained,
\* for every input format.
C16_TextBranchRasterOutput ==
    (Returned /\ branch = "text") =>
        /\ result.strategy = "RASTER_OPTIMIZE"
        /\ result.mimeType = "image/jpeg"
        /\ result.buffer.src = "codec"
        /\ codecCalls = 1
        /\ result.extractedText = vlmResult.extractedText
        /\ result.caption # Absent <=> (options.generateCaption /\ vlmResult.caption # <<>>)

----------------------------------------------------------------------------
(* Colour-cardinality estimator and raster resize, called directly *)

CountReturned == api = "countDistinctColors" /\ pc = "done"

\* the colours of an image, pixel by pixel
TrueColors(img) ==
    { <<img.data[3 * i + 1], img.data[3 * i + 2], img.data[3 * i + 3]>> :
        i \in 0..(img.width * img.height - 1) }

\* img is k evenly-sized solid horizontal stripes of pairwise distinct colours
IsEvenStripes(img, k) ==
    /\ img.height % k = 0
    /\ \A y \in 0..(img.height - 1), x \in 0..(img.width - 1) :
          LET o == 3 * (y * img.width + x)
          IN <<img.data[o + 1], img.data[o + 2], img.data[o + 3]>>
               = TestColor((y \div (img.height \div k)) + 1)

\* C17: the value countDistinctColors returns never exceeds sampleSize.
C17_EstimateAtMostSampleSize ==
    CountReturned => cdcRet <= cdcSampleSize

\* C18: on an image of k evenly-sized solid horizontal stripes of pairwise
\* distinct colours, with 1 <= k <= sampleSize, countDistinctColors returns k;
\* on a single-colour image it returns 1.
C18_StripesCountedExactly ==
    CountReturned =>
        \A k \in 1..(MaxStripes + 1) :
            (k <= cdcSampleSize /\ IsEvenStripes(input, k)) => cdcRet = k

C18_Witness ==
    /\ CountReturned /\ IsEvenStripes(input, 3) /\ cdcSampleSize = 3
    /\ input.width * input.height > 2 * cdcSampleSize /\ cdcRet = 3

\* C19: countDistinctColors returns at least 1 and at most the number of
\* distinct colours of the image, and exactly that number when the image has
\* no more pixels than sampleSize.
C19_EstimateIsLowerBound ==
    CountReturned =>
        /\ cdcRet >= 1
        /\ cdcRet <= Cardinality(TrueColors(input))
        /\ input.width * input.height <= cdcSampleSize
             => cdcRet = Cardinality(TrueColors(input))

C19_Witness ==
    /\ CountReturned /\ Cardinality(TrueColors(input)) = 3
    /\ input.width * input.height <= cdcSampleSize /\ cdcRet = 3

Abs(a) == IF a >= 0 THEN a ELSE 0 - a

ResizeReturned == api = "optimizeRasterImage" /\ pc = "done"

\* the maxDimension in force
EffectiveMaxDimension ==
    IF resizeIn.maxDimension = UndefinedNumber THEN 768 ELSE resizeIn.maxDimension

\* C20: the output of the raster operation is never wider or taller than
\* maxDimension; it has the source size when the source fits; otherwise its
\* longer side is maxDimension and the other side is the source's scaled by
\* the same factor, within one pixel. 2000x1000 at 768 gives 768x384.
C20_ResizeWithinBoxKeepsAspect ==
    ResizeReturned =>
        LET w == resizeIn.w
            h == resizeIn.h
            md == EffectiveMaxDimension
        IN /\ resizeOut.width <= md /\ resizeOut.height <= md
           /\ resizeOut.width >= 1 /\ resizeOut.height >= 1
           /\ (w <= md /\ h <= md) => resizeOut = [width |-> w, height |-> h]
           /\ (w > md \/ h > md) =>
                 /\ resizeOut.width <= w /\ resizeOut.height <= h
                 /\ w >= h => /\ resizeOut.width = md
                              /\ Abs(resizeOut.height * w - h * md) <= w
                 /\ h >= w => /\ resizeOut.height = md
                              /\ Abs(resizeOut.width * h - w * md) <= h
           /\ (w = 2000 /\ h = 1000 /\ md = 768) => resizeOut = [width |-> 768, height |-> 384]

C20_Witness ==
    /\ ResizeReturned /\ resizeIn = [w |-> 2000, h |-> 1000, maxDimension |-> 768]
    /\ resizeOut = [width |-> 768, height |-> 384]

----------------------------------------------------------------------------
(* Independence of concurrent invocations *)

RECURSIVE RunToEnd(_)
\* the invocation c run with no other invocation in the batch
RunToEnd(c) ==
    IF c.pc \in {"done", "thrown"} THEN c ELSE RunToEnd(Resume(<<c>>, 1)[1])

RunAlone(c) == RunToEnd(Called(c.input, c.options, c.script))

\* C15: under every interleaving of the invocations of a batch, an invocation
\* that has completed has the outcome (result, branch, error) it has when run
\* alone with the same input, options and remote responses, and a step of one
\* invocation leaves the state of every other invocation as it was.
C15_InvocationsIndependent ==
    /\ [](\A i \in DOMAIN calls :
            calls[i].pc \in {"done", "thrown"} => calls[i] = RunAlone(calls[i]))
    /\ [][\A i \in DOMAIN calls :
            calls'[i] # calls[i] => \A j \in DOMAIN calls \ {i} : calls'[j] = calls[j]]_vars

C15_Witness ==
    \E i, j \in DOMAIN calls :
        /\ i # j
        /\ calls[i].pc = "done" /\ calls[i].branch = "text"
        /\ calls[j].pc = "done" /\ calls[j].branch = "semantic"

----------------------------------------------------------------------------
(* Order of the steps of one invocation; precedence in the cascade *)

\* C28: in an invocation of optimizeForLLM no request to the remote service
\* and no raster codec call is made before metadata extraction and strategy
\* selection have completed; when the codec cannot determine the dimensions
\* the invocation rejects with that error and makes neither.
C28_AnalysisBeforeRemoteAndCodec ==
    api = "optimizeForLLM" =>
        /\ pc = "analyze" => (analysis = NoAnalysis /\ vlmCalls = 0 /\ probes = 0
                                /\ generates = 0 /\ codecCalls = 0)
        /\ (vlmCalls + probes + generates + codecCalls > 0) =>
               (analysis.metadata.format = input.format
                /\ analysis.strategy \in {"KEEP_AS_IS", "RASTER_OPTIMIZE"})
        /\ (input.width = 0 \/ input.height = 0) =>
               /\ vlmCalls = 0 /\ probes = 0 /\ generates = 0 /\ codecCalls = 0
               /\ pc \in {"analyze", "thrown"}
               /\ pc = "thrown" => (err = "Unable to determine image dimensions"
                                     /\ result = NoResult)

C28_Witness ==
    /\ api = "optimizeForLLM" /\ pc = "thrown" /\ input.width = 0
    /\ options.generateCaption /\ options.semanticSvg
    /\ err = "Unable to determine image dimensions" /\ probes = 0

\* C29: a result with strategy SEMANTIC_SVG comes from the semantic branch
\* alone: it carries no extractedText, whatever the VLM answered about text,
\* and the raster codec was not called in that invocation.
C29_SemanticBeforeText ==
    /\ (Returned /\ result.strategy = "SEMANTIC_SVG") =>
          /\ branch = "semantic"
          /\ result.extractedText = Absent
          /\ codecCalls = 0
    /\ (Returned /\ SemanticSvgAccepted(options, vlmResult)) =>
          /\ result.strategy = "SEMANTIC_SVG"
          /\ result.buffer = BufferFrom(vlmResult.svgCode.s)

C29_Witness ==
    /\ Returned /\ result.strategy = "SEMANTIC_SVG"
    /\ options.extractText /\ options.semanticSvg
    /\ vlmResult.contentType = "text" /\ Truthy(vlmResult.extractedText)

----------------------------------------------------------------------------
(* analyzeWithVLM called on its own: request, decoding, field validation *)

VlmReturned == api = "analyzeWithVLM" /\ pc = "done"

\* the all-defaults record with the given caption, written out
DefaultRecord(caption) ==
    [present |-> TRUE, caption |-> caption, contentType |-> "complex",
     svgCandidate |-> FALSE, svgReason |-> <<>>,
     svgCode |-> [t |-> "null", s |-> <<>>, b |-> FALSE],
     extractedText |-> [t |-> "null", s |-> <<>>, b |-> FALSE]]

IsStringOrNull(v) == v.t \in {"str", "null"} /\ (v.t = "null" => v.s = <<>>)

\* C22: every result analyzeWithVLM returns has all six fields with their
\* types: caption and svgReason strings, contentType one of the four content
\* types, svgCandidate a boolean, svgCode and extractedText a string or null;
\* after a generation request that is not ok it is the all-defaults record.
C22_ResultFullyConstructed ==
    VlmReturned =>
        /\ DOMAIN vlmResult = {"present", "caption", "contentType", "svgCandidate",
                               "svgReason", "svgCode", "extractedText"}
        /\ vlmResult.present
        /\ vlmResult.caption \in Seq(ResponseTokens)
        /\ vlmResult.svgReason \in Seq(ResponseTokens)
        /\ vlmResult.contentType \in {"diagram", "text", "photo", "complex"}
        /\ vlmResult.svgCandidate \in BOOLEAN
        /\ IsStringOrNull(vlmResult.svgCode)
        /\ IsStringOrNull(vlmResult.extractedText)
        /\ remote.generate = "nonOk" => vlmResult = DefaultRecord(<<>>)

C22_Witness ==
    /\ VlmReturned /\ remote.body = "json"
    /\ response.members.svgCode.t = "num" /\ response.members.caption.t = "num"
    /\ response.members.contentType = Str(<<"bogus">>)

\* C23: when the response text has no brace-delimited block, or the block
\* located in it does not parse, the result is the all-defaults record with
\* the trimmed response text as caption.
C23_UnparsedTextIsCaption ==
    (VlmReturned /\ remote.generate = "ok" /\ response.kind = "string") =>
        LET raw == Trim(response.text)
            noBlock == ~\E i, j \in 1..Len(raw) : i < j /\ raw[i] = "{" /\ raw[j] = "}"
        IN (noBlock \/ ~JsonParses(matchBlock(raw))) => vlmResult = DefaultRecord(raw)

C23_Witness ==
    /\ VlmReturned /\ response.kind = "string"
    /\ response.text = <<WsRun, "{", "cap", "}">>
    /\ vlmResult.caption = <<"{", "cap", "}">>

\* the first brace-delimited block of a text: from the first opening brace to
\* the first closing brace after it
FirstBlock(raw) ==
    LET open == IndexOf(raw, "{")
        close == IF open = 0 THEN 0 ELSE open + IndexOf(SubSeq(raw, open + 1, Len(raw)), "}")
    IN IF open # 0 /\ close > open THEN SubSeq(raw, open, close) ELSE <<>>

\* C24: a response text that parses as a whole is used as parsed; otherwise
\* the first brace-delimited block is parsed on its own and, when it parses,
\* its fields are used whatever text surrounds or follows it.
C24_FirstBlockUsed ==
    (VlmReturned /\ remote.generate = "ok" /\ response.kind = "string") =>
        LET raw == Trim(response.text)
        IN /\ JsonParses(raw) => vlmResult = ValidateFields(JsonParse(raw, response.members))
           /\ (~JsonParses(raw) /\ JsonParses(FirstBlock(raw))) =>
                 vlmResult = ValidateFields(JsonParse(FirstBlock(raw), response.members))

\* the value of one validated string field
StringOr(v, default) == IF v.t = "str" THEN v.s ELSE default

\* the parsed object of a response that is one object
OneObject == VlmReturned /\ response.kind = "string" /\ response.text = <<"{", "members", "}">>

\* C25 as stated: every field of the result is determined by the same field of
\* the parsed object alone, and caption is the parsed value when it is a string.
C25_FieldsAsParsed ==
    OneObject =>
        LET parsed == response.members
        IN /\ vlmResult.caption = StringOr(parsed.caption, <<>>)
           /\ vlmResult.svgReason = StringOr(parsed.svgReason, <<>>)
           /\ vlmResult.contentType =
                 (IF parsed.contentType \in {Str(<<c>>) : c \in {"diagram", "text", "photo", "complex"}}
                  THEN parsed.contentType.s[1] ELSE "complex")
           /\ vlmResult.svgCandidate = (parsed.svgCandidate = Bool(TRUE))
           /\ vlmResult.svgCode = (IF parsed.svgCode.t = "str" THEN parsed.svgCode ELSE Null)
           /\ vlmResult.extractedText =
                 (IF parsed.extractedText.t = "str" THEN parsed.extractedText ELSE Null)

\* C25 amended: every field of the result is determined by the same field of
\* the parsed object alone: contentType is the parsed value when it is one of
\* the four content types and 'complex' otherwise; svgCandidate is true only
\* for the boolean true; caption is the parsed string with surrounding white
\* space trimmed and svgReason the parsed string, '' otherwise; svgCode and
\* extractedText are the parsed string, null otherwise.
C25_FieldsValidatedIndependently ==
    OneObject =>
        LET parsed == response.members
        IN /\ vlmResult.caption = Trim(StringOr(parsed.caption, <<>>))
           /\ vlmResult.svgReason = StringOr(parsed.svgReason, <<>>)
           /\ vlmResult.contentType =
                 (IF parsed.contentType \in {Str(<<c>>) : c \in {"diagram", "text", "photo", "complex"}}
                  THEN parsed.contentType.s[1] ELSE "complex")
           /\ vlmResult.svgCandidate = (parsed.svgCandidate = Bool(TRUE))
           /\ vlmResult.svgCode = (IF parsed.svgCode.t = "str" THEN parsed.svgCode ELSE Null)
           /\ vlmResult.extractedText =
                 (IF parsed.extractedText.t = "str" THEN parsed.extractedText ELSE Null)

C25_Witness ==
    /\ OneObject
    /\ response.members.svgCandidate = Str(<<"true">>)
    /\ response.members.contentType = Num
    /\ response.members.caption = Str(<<WsRun, "cap">>)
    /\ response.members.svgCode.t = "str"
    /\ vlmResult.caption = <<"cap">> /\ vlmResult.svgCode.t = "str" /\ ~vlmResult.svgCandidate

\* C26: isLikelySemanticSvg(svgCode, maxBytes) returns true exactly when the
\* trimmed text begins with <svg, is at most maxBytes bytes long, has no
\* <image element and no href to a data:image URI, has at most 10 <path
\* elements and has at least one of <text, <rect, <circle, <line, <polyline,
\* <polygon; otherwise it returns false.
C26_ValidatorAcceptsExactly ==
    api = "isLikelySemanticSvg" =>
        LET t == Trim(validated.svgCode)
        IN /\ validated.ret \in BOOLEAN
           /\ validated.ret <=>
                 /\ Len(t) >= 1 /\ t[1] = "<svg"
                 /\ byteLength(t) <= validated.maxBytes
                 /\ \A i \in 1..Len(t) : t[i] \notin {"<image", "href='data:image/"}
                 /\ pathCount(t) <= 10
                 /\ \E i \in 1..Len(t) : t[i] \in {"<text", "<text*", "<rect", "<circle", "<line",
                                                    "<polyline", "<polygon"}

C26_Witness ==
    /\ api = "isLikelySemanticSvg" /\ validated.ret
    /\ validated.svgCode = <<WsRun, "<svg", "<rect">> /\ validated.maxBytes = 9

\* C27: the generation request of analyzeWithVLM carries the full prompt
\* exactly when semanticSvg, extractText or mode 'full' is asked for and the
\* caption prompt otherwise; it carries one image, stream false, and the
\* caller's model or qwen3-vl:4b when none is given.
C27_PromptAndPayload ==
    (api = "analyzeWithVLM" /\ generates >= 1) =>
        /\ request.prompt =
              (IF vlmOpts.semanticSvg \/ vlmOpts.extractText \/ vlmOpts.mode = "full"
               THEN VLM_PROMPT_FULL ELSE VLM_PROMPT_CAPTION)
        /\ VLM_PROMPT_FULL # VLM_PROMPT_CAPTION
        /\ request.images = 1
        /\ request.stream = FALSE
        /\ request.model = (IF vlmOpts.model = "undefined" THEN "qwen3-vl:4b" ELSE vlmOpts.model)
        /\ generates = 1

C27_Witness ==
    /\ api = "analyzeWithVLM" /\ generates = 1
    /\ vlmOpts.mode = "full" /\ ~vlmOpts.semanticSvg /\ ~vlmOpts.extractText
    /\ vlmOpts.model = "llava" /\ request.prompt = VLM_PROMPT_FULL /\ request.model = "llava"

----------------------------------------------------------------------------
(* Command line: failures of a batch, output paths *)

Exited == cli.stage = "exited" /\ cli.files # <<>>

Succeeds(outcome) == outcome \in {"KEEP_AS_IS", "RASTER_OPTIMIZE", "SEMANTIC_SVG"}

\* C21: in a batch of the optimize command a file that cannot be read,
\* decoded or written does not stop the others: every file whose own read,
\* optimization and write succeed is written whatever happens to the others;
\* every failed file has its error on stderr; the exit code is non-zero
\* exactly when every file failed.
C21_FailuresIsolated ==
    Exited =>
        /\ \A i \in DOMAIN cli.files :
              LET f == cli.files[i]
              IN /\ Succeeds(f.outcome) <=> f.pc = "fulfilled"
                 /\ f.pc = "fulfilled" =>
                       \E w \in cli.written : w.path = f.outputPath
                 /\ ~Succeeds(f.outcome) =>
                       /\ f.pc = "rejected"
                       /\ \E k \in DOMAIN cli.stderr :
                             cli.stderr[k].path = f.path /\ cli.stderr[k].message # ""
        /\ Len(cli.stderr) = Cardinality({i \in DOMAIN cli.files : ~Succeeds(cli.files[i].outcome)})
        /\ Len(cli.stdout) = Cardinality({i \in DOMAIN cli.files : Succeeds(cli.files[i].outcome)})
        /\ (cli.exitCode # 0) <=> (\A i \in DOMAIN cli.files : ~Succeeds(cli.files[i].outcome))
        /\ cli.exitCode \in {0, 1}

C21_Witness ==
    /\ Exited /\ Len(cli.files) = 2
    /\ cli.files[1].outcome = "unreadable" /\ cli.files[2].outcome = "RASTER_OPTIMIZE"
    /\ cli.files[2].pc = "fulfilled" /\ Len(cli.stderr) = 1 /\ cli.exitCode = 0

\* C30: without --output, two files of a batch with distinct input paths
\* never get the same output path, and no file written by the batch is
\* overwritten by another file of the batch.
C30_DistinctOutputPaths ==
    (cli.stage # "none" /\ ~cli.output) =>
        /\ \A i, j \in DOMAIN cli.files :
              (i # j /\ cli.files[i].path # cli.files[j].path
               /\ cli.files[i].outputPath # NoPath /\ cli.files[j].outputPath # NoPath)
                 => cli.files[i].outputPath # cli.files[j].outputPath
        /\ cli.overwritten = {}

====
